---- MODULE Spec2Model ----
(***************************************************************************)
(* Model of src/src/invoice_service.py: InvoiceService.compute_total and   *)
(* its helpers.                                                            *)
(*                                                                         *)
(* Numbers.  Python floats are modelled by exact fixed-point arithmetic:   *)
(* an amount a is the integer a * 10^4, a rate r is the integer r * 100    *)
(* (a percentage).  Unit prices of the inputs are whole currency units, so *)
(* every product amount * rate of the program is exact in this             *)
(* representation.  Floating-point rounding is not modelled.               *)
(*                                                                         *)
(* Strings.  sku, ids, country, membership and the messages are strings.   *)
(* A coupon is a sequence of one-character strings, so that strip() is     *)
(* computed and not assumed; None is the sequence NoCoupon.                *)
(***************************************************************************)
EXTENDS Integers, Sequences, FiniteSets, TLC

\* One currency unit, in the model's fixed-point representation.
Unit == 100 * 100
Amount(n) == n * Unit

\* amount * rate, the rate a percentage: exact whenever amount is a multiple
\* of 100, which every amount of the program is for whole-unit prices.
Times(amount, pct) == (amount \div 100) * pct + ((amount % 100) * pct) \div 100

Max(a, b) == IF a >= b THEN a ELSE b

\* float("inf") of the shipping tables.
Inf == -1

\* VALID_CATEGORIES and FRAGILE_FEE_PER_ITEM
VALID_CATEGORIES == {"book", "food", "electronics", "other"}
FRAGILE_FEE_PER_ITEM == Amount(5)

\* ---------------------------------------------------------------- strings

\* The characters str.strip() removes (those the inputs use).
Whitespace == {" ", "\t", "\n"}

RECURSIVE LStrip(_)
LStrip(s) == IF s # <<>> /\ Head(s) \in Whitespace THEN LStrip(Tail(s)) ELSE s

RECURSIVE RStrip(_)
RStrip(s) ==
    IF s # <<>> /\ s[Len(s)] \in Whitespace
    THEN RStrip(SubSeq(s, 1, Len(s) - 1))
    ELSE s

\* Mutant of Strip: lstrip() for strip().
Strip_LeftOnly(s) == LStrip(s)

\* str.strip()
Strip(s) == RStrip(LStrip(s))

\* Optional[str] None of Invoice.coupon, and the None invoice.
NoCoupon == <<"<None>">>
NoInvoice == [absent |-> TRUE]

\* "; ".join(problems)
RECURSIVE Join(_)
Join(ps) ==
    IF ps = <<>> THEN ""
    ELSE IF Len(ps) = 1 THEN ps[1]
    ELSE ps[1] \o "; " \o Join(Tail(ps))

\* ----------------------------------------------------- configuration tables

WELCOME10 == <<"W", "E", "L", "C", "O", "M", "E", "1", "0">>
VIP20 == <<"V", "I", "P", "2", "0">>
STUDENT5 == <<"S", "T", "U", "D", "E", "N", "T", "5">>

SHIPPING_RULES ==
    [c \in {"TH", "JP", "US", "DEFAULT"} |->
        CASE c = "TH" -> << <<Amount(500), Amount(60)>>, <<Inf, 0>> >>
          [] c = "JP" -> << <<Amount(4000), Amount(600)>>, <<Inf, 0>> >>
          [] c = "US" -> << <<Amount(100), Amount(15)>>, <<Amount(300), Amount(8)>>,
                            <<Inf, 0>> >>
          [] c = "DEFAULT" -> << <<Amount(200), Amount(25)>>, <<Inf, 0>> >>]

TAX_RATE ==
    [c \in {"TH", "JP", "US", "DEFAULT"} |->
        CASE c = "TH" -> 7 [] c = "JP" -> 10 [] c = "US" -> 8 [] c = "DEFAULT" -> 5]

MEMBERSHIP_RATE ==
    [m \in {"gold", "platinum"} |-> IF m = "gold" THEN 3 ELSE 5]

COUPON_RATE ==
    [k \in {WELCOME10, VIP20, STUDENT5} |->
        IF k = WELCOME10 THEN 10 ELSE IF k = VIP20 THEN 20 ELSE 5]

\* dict.get(key, default)
Get(table, key, default) == IF key \in DOMAIN table THEN table[key] ELSE default

\* -------------------------------------------------------------- validation

\* Mutant of ItemProblems: a price of 0 is rejected too (<= for <).
ItemProblems_PriceLeqZero(it) ==
    (IF it.sku = "" THEN <<"Item sku is missing">> ELSE <<>>)
    \o (IF it.qty <= 0 THEN <<"Invalid qty for " \o it.sku>> ELSE <<>>)
    \o (IF it.unit_price <= 0 THEN <<"Invalid price for " \o it.sku>> ELSE <<>>)
    \o (IF it.category \notin VALID_CATEGORIES
        THEN <<"Unknown category for " \o it.sku>> ELSE <<>>)

\* The problems of one item, lines 71-78.
ItemProblems(it) ==
    (IF it.sku = "" THEN <<"Item sku is missing">> ELSE <<>>)
    \o (IF it.qty <= 0 THEN <<"Invalid qty for " \o it.sku>> ELSE <<>>)
    \o (IF it.unit_price < 0 THEN <<"Invalid price for " \o it.sku>> ELSE <<>>)
    \o (IF it.category \notin VALID_CATEGORIES
        THEN <<"Unknown category for " \o it.sku>> ELSE <<>>)

\* The loop of lines 70-78.
RECURSIVE AllItemProblems(_)
AllItemProblems(items) ==
    IF items = <<>> THEN <<>>
    ELSE ItemProblems(Head(items)) \o AllItemProblems(Tail(items))

\* Mutant of _validate: fail fast, reporting the first problem only.
_validate_FailFast(inv) ==
    IF inv = NoInvoice THEN <<"Invoice is missing">>
    ELSE IF inv.invoice_id = "" THEN <<"Missing invoice_id">>
    ELSE IF inv.customer_id = "" THEN <<"Missing customer_id">>
    ELSE IF inv.items = <<>> THEN <<"Invoice must contain items">>
    ELSE LET ps == AllItemProblems(inv.items)
         IN  IF ps = <<>> THEN <<>> ELSE <<ps[1]>>

_validate(inv) ==
    IF inv = NoInvoice THEN <<"Invoice is missing">>
    ELSE (IF inv.invoice_id = "" THEN <<"Missing invoice_id">> ELSE <<>>)
         \o (IF inv.customer_id = "" THEN <<"Missing customer_id">> ELSE <<>>)
         \o (IF inv.items = <<>> THEN <<"Invoice must contain items">> ELSE <<>>)
         \o AllItemProblems(inv.items)

\* ------------------------------------------------------------ pricing steps

RECURSIVE _subtotal(_)
_subtotal(items) ==
    IF items = <<>> THEN 0
    ELSE Head(items).unit_price * Head(items).qty + _subtotal(Tail(items))

RECURSIVE _fragile_fee(_)
_fragile_fee(items) ==
    IF items = <<>> THEN 0
    ELSE (IF Head(items).fragile THEN FRAGILE_FEE_PER_ITEM * Head(items).qty ELSE 0)
         + _fragile_fee(Tail(items))

\* Mutant of Below: subtotal <= limit.
Below_OrEqual(subtotal, limit) == limit = Inf \/ subtotal <= limit

\* subtotal < limit, the limit possibly float("inf")
Below(subtotal, limit) == limit = Inf \/ subtotal < limit

\* The scan of lines 95-98.
RECURSIVE ScanRules(_, _)
ScanRules(rules, subtotal) ==
    IF rules = <<>> THEN 0
    ELSE IF Below(subtotal, Head(rules)[1]) THEN Head(rules)[2]
    ELSE ScanRules(Tail(rules), subtotal)

_shipping(rules_table, country, subtotal) ==
    ScanRules(Get(rules_table, country, rules_table["DEFAULT"]), subtotal)

_tax(rate_table, country, taxable) ==
    Times(taxable, Get(rate_table, country, rate_table["DEFAULT"]))

\* Mutant of _membership_discount: the flat amount is added to the tier's
\* percentage instead of replacing it.
_membership_discount_Cumulative(rate_table, membership, subtotal) ==
    LET rate == Get(rate_table, membership, 0)
    IN  (IF rate # 0 THEN Times(subtotal, rate) ELSE 0)
        + (IF subtotal > Amount(3000) THEN Amount(20) ELSE 0)

\* Mutant of _membership_discount: the flat amount whatever the subtotal.
_membership_discount_NoThreshold(rate_table, membership, subtotal) ==
    LET rate == Get(rate_table, membership, 0)
    IN  IF rate # 0 THEN Times(subtotal, rate) ELSE Amount(20)

\* Mutant of _membership_discount: subtotal >= 3000 for subtotal > 3000.
_membership_discount_AtThreshold(rate_table, membership, subtotal) ==
    LET rate == Get(rate_table, membership, 0)
    IN  IF rate # 0 THEN Times(subtotal, rate)
        ELSE IF subtotal >= Amount(3000) THEN Amount(20)
        ELSE 0

\* `if rate:` is false for a missing tier (None) and for a rate of 0.
_membership_discount(rate_table, membership, subtotal) ==
    LET rate == Get(rate_table, membership, 0)
    IN  IF rate # 0 THEN Times(subtotal, rate)
        ELSE IF subtotal > Amount(3000) THEN Amount(20)
        ELSE 0

\* Mutant of _coupon_discount: an unknown code is remembered in
\* self._coupon_rate with a rate of 0.
_coupon_discount_Remembers(rates, coupon, subtotal, warnings) ==
    IF coupon = NoCoupon \/ coupon = <<>>
    THEN [ret |-> 0, warnings |-> warnings, rates |-> rates]
    ELSE LET code == Strip(coupon)
         IN  IF code \in DOMAIN rates
             THEN [ret |-> Times(subtotal, rates[code]), warnings |-> warnings,
                   rates |-> rates]
             ELSE [ret |-> 0, warnings |-> Append(warnings, "Unknown coupon"),
                   rates |-> [k \in DOMAIN rates \cup {code} |->
                                 IF k \in DOMAIN rates THEN rates[k] ELSE 0]]

\* Returns the discount, the warnings list it was passed (appended to in
\* place) and self._coupon_rate as the call leaves it.
_coupon_discount(rates, coupon, subtotal, warnings) ==
    IF coupon = NoCoupon \/ coupon = <<>>
    THEN [ret |-> 0, warnings |-> warnings, rates |-> rates]
    ELSE LET code == Strip(coupon)
         IN  IF code \in DOMAIN rates
             THEN [ret |-> Times(subtotal, rates[code]), warnings |-> warnings,
                   rates |-> rates]
             ELSE [ret |-> 0, warnings |-> Append(warnings, "Unknown coupon"),
                   rates |-> rates]

\* ------------------------------------------------------------ compute_total

\* The engine's tables as one value: the class attributes and self._coupon_rate.
VARIABLES shipping_rules, tax_rate, membership_rate, coupon_rate, frames

vars == <<shipping_rules, tax_rate, membership_rate, coupon_rate, frames>>

\* Number of concurrent callers of one engine.
NumCallers == 2
Callers == 1 .. NumCallers

\* The activation record of one compute_total call: its position, its argument,
\* its locals, and how it ended (error: the ValueError's message; ret: the pair
\* returned).
Idle ==
    [pc |-> "idle", inv |-> NoInvoice, problems |-> <<>>, warnings |-> <<>>,
     subtotal |-> 0, fragile_fee |-> 0, shipping |-> 0, discount |-> 0,
     taxable |-> 0, tax |-> 0, total |-> 0,
     error |-> "", ret |-> [total |-> 0, warnings |-> <<>>]]

Enter(inv) == [Idle EXCEPT !.pc = "validate", !.inv = inv]

Terminal == {"raised", "returned"}

\* Mutant of Taxable_: tax on the undiscounted subtotal.
Taxable_Undiscounted(subtotal, discount) == subtotal

\* Line 143.
Taxable_(subtotal, discount) == subtotal - discount

\* Line 146.
Total_(subtotal, shipping, fragile_fee, tax, discount) ==
    Max(subtotal + shipping + fragile_fee + tax - discount, 0)

\* Mutant of Advisory: the advice whatever the tier.
Advisory_AnyTier(members, membership, subtotal, warnings) ==
    IF subtotal > Amount(10000)
    THEN Append(warnings, "Consider membership upgrade")
    ELSE warnings

\* Lines 148-149: the warnings list after the upgrade advice.
Advisory(members, membership, subtotal, warnings) ==
    IF subtotal > Amount(10000) /\ membership \notin DOMAIN members
    THEN Append(warnings, "Consider membership upgrade")
    ELSE warnings

\* One step of compute_total (lines 126-151) in frame f, against the tables
\* rules, taxes, members and coupons: the frame after the step and
\* self._coupon_rate after it.
Step(f, rules, taxes, members, coupons) ==
    CASE f.pc = "validate" ->      \* line 127
           [frame |-> [f EXCEPT !.problems = _validate(f.inv), !.pc = "check"],
            coupons |-> coupons]
      [] f.pc = "check" ->         \* lines 128-129
           [frame |-> IF f.problems # <<>>
                      THEN [f EXCEPT !.error = Join(f.problems), !.pc = "raised"]
                      ELSE [f EXCEPT !.pc = "subtotal"],
            coupons |-> coupons]
      [] f.pc = "subtotal" ->      \* lines 131-133
           [frame |-> [f EXCEPT !.warnings = <<>>,
                                !.subtotal = _subtotal(f.inv.items),
                                !.pc = "fragile"],
            coupons |-> coupons]
      [] f.pc = "fragile" ->       \* line 134
           [frame |-> [f EXCEPT !.fragile_fee = _fragile_fee(f.inv.items),
                                !.pc = "shipping"],
            coupons |-> coupons]
      [] f.pc = "shipping" ->      \* line 136
           [frame |-> [f EXCEPT !.shipping = _shipping(rules, f.inv.country, f.subtotal),
                                !.pc = "discount"],
            coupons |-> coupons]
      [] f.pc = "discount" ->      \* lines 138-141
           LET m == _membership_discount(members, f.inv.membership, f.subtotal)
               c == _coupon_discount(coupons, f.inv.coupon, f.subtotal, f.warnings)
           IN  [frame |-> [f EXCEPT !.discount = m + c.ret,
                                    !.warnings = c.warnings,
                                    !.pc = "taxable"],
                coupons |-> c.rates]
      [] f.pc = "taxable" ->       \* line 143
           [frame |-> [f EXCEPT !.taxable = Taxable_(f.subtotal, f.discount),
                                !.pc = "tax"],
            coupons |-> coupons]
      [] f.pc = "tax" ->           \* line 144
           [frame |-> [f EXCEPT !.tax = _tax(taxes, f.inv.country, f.taxable),
                                !.pc = "total"],
            coupons |-> coupons]
      [] f.pc = "total" ->         \* line 146
           [frame |-> [f EXCEPT !.total =
                           Total_(f.subtotal, f.shipping, f.fragile_fee, f.tax,
                                  f.discount),
                                !.pc = "advise"],
            coupons |-> coupons]
      [] f.pc = "advise" ->        \* lines 148-149
           [frame |-> [f EXCEPT !.warnings =
                           Advisory(members, f.inv.membership, f.subtotal, f.warnings),
                                !.pc = "return"],
            coupons |-> coupons]
      [] f.pc = "return" ->        \* line 151
           [frame |-> [f EXCEPT !.ret = [total |-> f.total, warnings |-> f.warnings],
                                !.pc = "returned"],
            coupons |-> coupons]

\* A whole call, run without interruption from frame f to its end.
RECURSIVE Run(_, _, _, _, _)
Run(f, rules, taxes, members, coupons) ==
    IF f.pc \in Terminal THEN [frame |-> f, coupons |-> coupons]
    ELSE LET s == Step(f, rules, taxes, members, coupons)
         IN  Run(s.frame, rules, taxes, members, s.coupons)

\* ------------------------------------------------------------------ inputs

\* Bounds of the inputs.
MaxQty == 2
MaxItems == 2
MaxPad == 1

\* Sequences over S of length lo .. hi.
SeqsOf(S, lo, hi) == UNION {[1 .. n -> S] : n \in lo .. hi}

Item(sku, category, price, qty, fragile) ==
    [sku |-> sku, category |-> category, unit_price |-> Amount(price), qty |-> qty,
     fragile |-> fragile]

Invoice(invoice_id, customer_id, country, membership, coupon, items) ==
    [invoice_id |-> invoice_id, customer_id |-> customer_id, country |-> country,
     membership |-> membership, coupon |-> coupon, items |-> items]

\* Unit prices, in whole currency units, around every threshold of the tables.
Prices ==
    {0, 1, 50, 99, 100, 150, 199, 200, 299, 300, 499, 500, 600, 1500, 2999, 3000,
     3001, 3999, 4000, 5000, 10000, 10001, 12000}

Countries == {"TH", "JP", "US", "FR"}
Memberships == {"gold", "platinum", "none"}

XYZ == <<"X", "Y", "Z">>
welcome10 == <<"w", "e", "l", "c", "o", "m", "e", "1", "0">>
VIP_20 == <<"V", "I", "P", " ", "2", "0">>

\* Valid invoices for pricing: a first item over Prices, then up to
\* MaxItems - 1 further items.
FirstItems ==
    {Item("A", "book", p, q, fr) : p \in Prices, q \in 1 .. MaxQty, fr \in BOOLEAN}
MoreItems ==
    {Item("B", "food", 1, 1, TRUE), Item("C", "electronics", 3000, 1, FALSE)}
ItemLists ==
    {<<first>> \o more : first \in FirstItems, more \in SeqsOf(MoreItems, 0, MaxItems - 1)}
PricingInvoices ==
    {Invoice("INV1", "C1", c, m, cp, its) :
        c \in Countries, m \in Memberships,
        cp \in {NoCoupon, VIP20, XYZ}, its \in ItemLists}

\* Coupon texts: a code between two runs of whitespace, each of at most MaxPad
\* characters; and no coupon at all.
Pads == SeqsOf(Whitespace, 0, MaxPad)
CouponTexts ==
    {l \o code \o r :
        l \in Pads, r \in Pads,
        code \in {<<>>, WELCOME10, VIP20, STUDENT5, XYZ, welcome10, VIP_20}}
    \cup {NoCoupon}
CouponInvoices ==
    {Invoice("INV2", "C2", "US", m, cp, <<Item("A", "book", p, 1, FALSE)>>) :
        m \in {"gold", "", "GOLD"}, cp \in CouponTexts, p \in {200, 12000}}

\* Invoices with any combination of validation problems.
AnyItems ==
    {Item(sku, cat, p, q, FALSE) :
        sku \in {"", "A"}, cat \in {"book", "toy"}, p \in {-1, 10}, q \in {0, 1}}
ValidationInvoices ==
    {Invoice(i, c, "TH", "none", XYZ, its) :
        i \in {"", "INV3"}, c \in {"", "C3"}, its \in SeqsOf(AnyItems, 0, MaxItems)}
    \cup {NoInvoice}

\* The invoices priced concurrently.
ConcInvoices ==
    {NoInvoice,
     Invoice("INV4", "", "US", "gold", XYZ, <<Item("A", "book", 50, 1, FALSE)>>),
     Invoice("INV5", "C5", "FR", "none", XYZ, <<Item("A", "book", 12000, 1, TRUE)>>),
     Invoice("INV6", "C6", "TH", "gold", WELCOME10, <<Item("A", "book", 600, 1, FALSE)>>)}

\* --------------------------------------------------------------- behaviours

EngineInit ==
    /\ shipping_rules = SHIPPING_RULES
    /\ tax_rate = TAX_RATE
    /\ membership_rate = MEMBERSHIP_RATE
    /\ coupon_rate = COUPON_RATE

\* One step of caller c's call.
Advance(c) ==
    LET s == Step(frames[c], shipping_rules, tax_rate, membership_rate, coupon_rate)
    IN  /\ frames' = [frames EXCEPT ![c] = s.frame]
        /\ coupon_rate' = s.coupons
        /\ UNCHANGED <<shipping_rules, tax_rate, membership_rate>>

\* compute_total(inv) as one uninterrupted call.
compute_total(c) ==
    /\ frames[c].pc = "validate"
    /\ LET s == Run(frames[c], shipping_rules, tax_rate, membership_rate, coupon_rate)
       IN  /\ frames' = [frames EXCEPT ![c] = s.frame]
           /\ coupon_rate' = s.coupons
    /\ UNCHANGED <<shipping_rules, tax_rate, membership_rate>>

\* Caller 1 is about to price an invoice of pool; nobody else calls.
CallPending(pool) ==
    \E inv \in pool : frames = [c \in Callers |-> IF c = 1 THEN Enter(inv) ELSE Idle]

\* Sequential use: one call of compute_total, on any invoice of the three pools.
Init ==
    /\ EngineInit
    /\ \/ CallPending(PricingInvoices)
       \/ CallPending(CouponInvoices)
       \/ CallPending(ValidationInvoices)

Next == compute_total(1)

Spec == Init /\ [][Next]_vars

\* Concurrent use: every caller calls compute_total again and again, the calls
\* interleaved step by step.
Call(c, inv) ==
    /\ frames[c].pc = "idle"
    /\ frames' = [frames EXCEPT ![c] = Enter(inv)]
    /\ UNCHANGED <<shipping_rules, tax_rate, membership_rate, coupon_rate>>

Validate(c) == frames[c].pc = "validate" /\ Advance(c)
Check(c) == frames[c].pc = "check" /\ Advance(c)
Subtotal(c) == frames[c].pc = "subtotal" /\ Advance(c)
FragileFee(c) == frames[c].pc = "fragile" /\ Advance(c)
Shipping(c) == frames[c].pc = "shipping" /\ Advance(c)
Discount(c) == frames[c].pc = "discount" /\ Advance(c)
Taxable(c) == frames[c].pc = "taxable" /\ Advance(c)
Tax(c) == frames[c].pc = "tax" /\ Advance(c)
Total(c) == frames[c].pc = "total" /\ Advance(c)
Advise(c) == frames[c].pc = "advise" /\ Advance(c)
Return(c) == frames[c].pc = "return" /\ Advance(c)

\* The caller takes the outcome; its next call starts from a fresh frame.
Finish(c) ==
    /\ frames[c].pc \in Terminal
    /\ frames' = [frames EXCEPT ![c] = Idle]
    /\ UNCHANGED <<shipping_rules, tax_rate, membership_rate, coupon_rate>>

ConcInit == EngineInit /\ frames = [c \in Callers |-> Idle]

ConcNext ==
    \E c \in Callers :
        \/ \E inv \in ConcInvoices : Call(c, inv)
        \/ Validate(c)
        \/ Check(c)
        \/ Subtotal(c)
        \/ FragileFee(c)
        \/ Shipping(c)
        \/ Discount(c)
        \/ Taxable(c)
        \/ Tax(c)
        \/ Total(c)
        \/ Advise(c)
        \/ Return(c)
        \/ Finish(c)

ConcSpec == ConcInit /\ [][ConcNext]_vars

\* ------------------------------------------------------------------ claims
\* The vocabulary of the claims, stated from the specification's text and not
\* through the operators above.

\* The one call of the sequential specification.
TheCall == frames[1]
Finished == TheCall.pc \in Terminal
Returned == TheCall.pc = "returned"
Raised == TheCall.pc = "raised"

ValidItem(it) ==
    /\ it.sku # ""
    /\ it.qty > 0
    /\ it.unit_price >= 0
    /\ it.category \in {"book", "food", "electronics", "other"}

ValidInvoice(inv) ==
    /\ inv # NoInvoice
    /\ inv.invoice_id # ""
    /\ inv.customer_id # ""
    /\ Len(inv.items) > 0
    /\ \A i \in 1 .. Len(inv.items) : ValidItem(inv.items[i])

\* C1: for every invoice that passes validation, for any country, membership
\* and coupon, compute_total returns normally and the total is >= 0.
C1_ValidInvoiceNonNegativeTotal ==
    (Finished /\ ValidInvoice(TheCall.inv)) => (Returned /\ TheCall.ret.total >= 0)

\* A valid invoice whose only item is free has been priced.
C1_Witness ==
    /\ Returned
    /\ ValidInvoice(TheCall.inv)
    /\ Len(TheCall.inv.items) = 1
    /\ TheCall.inv.items[1].unit_price = 0
    /\ TheCall.ret.total > 0

\* The k-th check of validation in the order the specification gives: the
\* three checks of the invoice, then four per item, item by item.
CheckAt(inv, k) ==
    IF k = 1 THEN [bad |-> inv.invoice_id = "", msg |-> "Missing invoice_id"]
    ELSE IF k = 2 THEN [bad |-> inv.customer_id = "", msg |-> "Missing customer_id"]
    ELSE IF k = 3 THEN [bad |-> Len(inv.items) = 0, msg |-> "Invoice must contain items"]
    ELSE LET it == inv.items[(k - 4) \div 4 + 1]
             field == (k - 4) % 4
         IN  IF field = 0 THEN [bad |-> it.sku = "", msg |-> "Item sku is missing"]
             ELSE IF field = 1
                  THEN [bad |-> it.qty < 1, msg |-> "Invalid qty for " \o it.sku]
             ELSE IF field = 2
                  THEN [bad |-> it.unit_price < 0, msg |-> "Invalid price for " \o it.sku]
             ELSE [bad |-> it.category \notin {"book", "food", "electronics", "other"},
                   msg |-> "Unknown category for " \o it.sku]

IsBad(check) == check.bad

ExpectedProblems(inv) ==
    IF inv = NoInvoice THEN <<"Invoice is missing">>
    ELSE LET all == [k \in 1 .. 3 + 4 * Len(inv.items) |-> CheckAt(inv, k)]
             bad == SelectSeq(all, IsBad)
         IN  [i \in 1 .. Len(bad) |-> bad[i].msg]

\* The problems of ps, each but the first preceded by "; ".
RECURSIVE Listed(_)
Listed(ps) ==
    IF Len(ps) = 0 THEN ""
    ELSE IF Len(ps) = 1 THEN ps[1]
    ELSE Listed(SubSeq(ps, 1, Len(ps) - 1)) \o "; " \o ps[Len(ps)]

\* C2: compute_total fails exactly when the invoice has a problem; the message
\* lists every problem, joined by "; ", in the order invoice_id, customer_id,
\* items, then per item sku, qty, price, category; an absent invoice gives
\* "Invoice is missing"; a failed call produces no total and no warnings.
C2_ValidationListsAllProblems ==
    Finished =>
        /\ Raised <=> (ExpectedProblems(TheCall.inv) # <<>>)
        /\ Raised =>
            /\ TheCall.error = Listed(ExpectedProblems(TheCall.inv))
            /\ TheCall.ret = Idle.ret
            /\ TheCall.total = 0
            /\ TheCall.warnings = <<>>

\* The specification's example: missing customer_id, a negative price and an
\* unknown category, all three in one message.
C2_Witness ==
    /\ Raised
    /\ TheCall.error = "Missing customer_id; Invalid price for A; Unknown category for A"

\* Amounts and rules as the specification states them.
RECURSIVE SumTo(_, _)
SumTo(items, n) ==
    IF n = 0 THEN 0 ELSE SumTo(items, n - 1) + items[n].qty * items[n].unit_price

RECURSIVE FragileTo(_, _)
FragileTo(items, n) ==
    IF n = 0 THEN 0
    ELSE FragileTo(items, n - 1) + (IF items[n].fragile THEN items[n].qty * Amount(5) ELSE 0)

SpecSubtotal(inv) == SumTo(inv.items, Len(inv.items))
SpecFragileFee(inv) == FragileTo(inv.items, Len(inv.items))

RateBearing == {"gold", "platinum"}

SpecMembershipDiscount(membership, subtotal) ==
    IF membership = "gold" THEN Times(subtotal, 3)
    ELSE IF membership = "platinum" THEN Times(subtotal, 5)
    ELSE IF subtotal > Amount(3000) THEN Amount(20)
    ELSE 0

\* The text of a coupon without its surrounding whitespace.
Blank == {" ", "\t", "\n"}
Trimmed(text) ==
    LET solid == {i \in 1 .. Len(text) : text[i] \notin Blank}
    IN  IF solid = {} THEN <<>>
        ELSE SubSeq(text, CHOOSE i \in solid : \A j \in solid : i <= j,
                          CHOOSE i \in solid : \A j \in solid : i >= j)

CouponAbsent(coupon) == coupon = NoCoupon \/ Len(coupon) = 0
CouponKnown(coupon) ==
    ~CouponAbsent(coupon) /\ Trimmed(coupon) \in {WELCOME10, VIP20, STUDENT5}
CouponUnknown(coupon) == ~CouponAbsent(coupon) /\ ~CouponKnown(coupon)

SpecCouponPct(code) ==
    CASE code = WELCOME10 -> 10 [] code = VIP20 -> 20 [] code = STUDENT5 -> 5

SpecCouponDiscount(coupon, subtotal) ==
    IF CouponKnown(coupon) THEN Times(subtotal, SpecCouponPct(Trimmed(coupon))) ELSE 0

SpecTaxPct(country) ==
    IF country \in DOMAIN TAX_RATE THEN TAX_RATE[country] ELSE TAX_RATE["DEFAULT"]

SpecRules(country) ==
    IF country \in DOMAIN SHIPPING_RULES
    THEN SHIPPING_RULES[country] ELSE SHIPPING_RULES["DEFAULT"]

\* bound > subtotal, strictly
Exceeds(bound, subtotal) == bound = Inf \/ bound > subtotal

\* i is the first pair of the country's table whose bound exceeds the subtotal.
IsTier(country, subtotal, i) ==
    /\ i \in 1 .. Len(SpecRules(country))
    /\ Exceeds(SpecRules(country)[i][1], subtotal)
    /\ \A j \in 1 .. i - 1 : ~Exceeds(SpecRules(country)[j][1], subtotal)

\* The outcome of a call of compute_total(inv) on the engine as it is now.
CallOf(inv) ==
    Run(Enter(inv), shipping_rules, tax_rate, membership_rate, coupon_rate).frame

Count(seq, x) == Cardinality({i \in 1 .. Len(seq) : seq[i] = x})

\* C4: for every valid invoice the total is
\*   max(subtotal + shipping + fragile_fee + tax - total_discount, 0)
\* with subtotal the sum of unit_price * qty, fragile_fee 5 per unit of the
\* fragile items, total_discount the membership discount plus the coupon
\* discount, both on the original subtotal, and tax (subtotal - total_discount)
\* times the country's rate; shipping and fragile fee are neither discounted
\* nor taxed.
C4_TotalAssembly ==
    Returned =>
        LET inv == TheCall.inv
            subtotal == SpecSubtotal(inv)
            fragile == SpecFragileFee(inv)
            discount == SpecMembershipDiscount(inv.membership, subtotal)
                        + SpecCouponDiscount(inv.coupon, subtotal)
            tax == Times(subtotal - discount, SpecTaxPct(inv.country))
        IN  /\ TheCall.subtotal = subtotal
            /\ TheCall.fragile_fee = fragile
            /\ TheCall.discount = discount
            /\ TheCall.tax = tax
            /\ TheCall.ret.total =
                   Max(subtotal + TheCall.shipping + fragile + tax - discount, 0)

\* A fragile and a non-fragile item, a tier and a coupon discount, a shipping fee.
C4_Witness ==
    /\ Returned
    /\ \E i \in 1 .. Len(TheCall.inv.items) : TheCall.inv.items[i].fragile
    /\ \E i \in 1 .. Len(TheCall.inv.items) : ~TheCall.inv.items[i].fragile
    /\ TheCall.inv.membership = "gold"
    /\ TheCall.inv.coupon = VIP20
    /\ TheCall.shipping > 0
    /\ TheCall.tax > 0

\* C5: an absent or empty coupon gives no coupon discount and no warning; a
\* coupon whose trimmed text is exactly WELCOME10, VIP20 or STUDENT5 gives
\* subtotal times the code's rate, no coupon warning, and the same total and
\* warnings as the bare code; any other coupon gives no coupon discount and
\* the warning "Unknown coupon" exactly once.
C5_CouponTrimmedCaseSensitive ==
    Returned =>
        LET inv == TheCall.inv
            subtotal == SpecSubtotal(inv)
            part == TheCall.discount - SpecMembershipDiscount(inv.membership, subtotal)
            warned == Count(TheCall.ret.warnings, "Unknown coupon")
        IN  /\ CouponAbsent(inv.coupon) => (part = 0 /\ warned = 0)
            /\ CouponKnown(inv.coupon) =>
                /\ part = Times(subtotal, SpecCouponPct(Trimmed(inv.coupon)))
                /\ warned = 0
                /\ TheCall.ret = CallOf([inv EXCEPT !.coupon = Trimmed(inv.coupon)]).ret
            /\ CouponUnknown(inv.coupon) => (part = 0 /\ warned = 1)

\* " WELCOME10 " has been priced, with a coupon discount.
C5_Witness ==
    /\ Returned
    /\ TheCall.inv.coupon = <<" ">> \o WELCOME10 \o <<" ">>
    /\ TheCall.inv.membership = ""
    /\ TheCall.discount = Times(TheCall.subtotal, 10)
    /\ TheCall.discount > 0
    /\ TheCall.ret.warnings = <<>>

\* C7: the shipping fee is the fee of the first pair of the country's table
\* (the DEFAULT table for a country without one) whose bound is strictly
\* greater than the subtotal; a subtotal equal to a bound falls to the next
\* pair; every subtotal selects some pair.
C7_ShippingFirstBoundAbove ==
    Returned =>
        LET country == TheCall.inv.country
            subtotal == SpecSubtotal(TheCall.inv)
        IN  /\ \E i \in 1 .. Len(SpecRules(country)) :
                  /\ IsTier(country, subtotal, i)
                  /\ TheCall.shipping = SpecRules(country)[i][2]
            /\ (country = "US" /\ subtotal = Amount(100)) => TheCall.shipping = Amount(8)
            /\ (country = "TH" /\ subtotal = Amount(600)) => TheCall.shipping = 0
            /\ (country = "FR" /\ subtotal = Amount(200)) => TheCall.shipping = 0

\* A US invoice with a subtotal of exactly 100 has been priced.
C7_Witness ==
    /\ Returned
    /\ TheCall.inv.country = "US"
    /\ TheCall.subtotal = Amount(100)
    /\ TheCall.shipping = Amount(8)

\* C8: the membership discount is subtotal times the tier's rate for gold (3%)
\* and platinum (5%), even above 3000; otherwise the flat 20 when subtotal is
\* strictly greater than 3000; otherwise 0.
C8_MembershipDiscountOnePath ==
    Returned =>
        LET inv == TheCall.inv
            subtotal == SpecSubtotal(inv)
            part == TheCall.discount - SpecCouponDiscount(inv.coupon, subtotal)
        IN  /\ inv.membership = "gold" => part = Times(subtotal, 3)
            /\ inv.membership = "platinum" => part = Times(subtotal, 5)
            /\ (inv.membership \notin RateBearing /\ subtotal > Amount(3000)) =>
                   part = Amount(20)
            /\ (inv.membership \notin RateBearing /\ subtotal <= Amount(3000)) =>
                   part = 0

\* A gold invoice above 3000 has been priced: the rate, without the flat 20.
C8_Witness ==
    /\ Returned
    /\ TheCall.inv.membership = "gold"
    /\ TheCall.inv.coupon = NoCoupon
    /\ TheCall.subtotal > Amount(3000)
    /\ TheCall.discount = Times(TheCall.subtotal, 3)

\* C9: the warnings of a successful call are, in this order, "Unknown coupon"
\* when the coupon is unknown and "Consider membership upgrade" exactly when
\* subtotal > 10000 and the tier has no rate entry; nothing else, no duplicates.
C9_WarningsInOrder ==
    Returned =>
        LET inv == TheCall.inv
            subtotal == SpecSubtotal(inv)
        IN  TheCall.ret.warnings =
                (IF CouponUnknown(inv.coupon) THEN <<"Unknown coupon">> ELSE <<>>)
                \o (IF subtotal > Amount(10000) /\ inv.membership \notin RateBearing
                    THEN <<"Consider membership upgrade">> ELSE <<>>)

\* Both warnings have been returned.
C9_Witness ==
    /\ Returned
    /\ TheCall.ret.warnings = <<"Unknown coupon", "Consider membership upgrade">>

\* C10: for every valid invoice the total discount never exceeds the subtotal
\* (at most 25% of it for a rate-bearing tier), the taxable amount and the tax
\* are never negative, and the clamp never changes the result.
C10_ClampNeverApplies ==
    (Finished /\ ValidInvoice(TheCall.inv)) =>
        /\ Returned
        /\ TheCall.discount <= TheCall.subtotal
        /\ TheCall.inv.membership \in RateBearing =>
               4 * TheCall.discount <= TheCall.subtotal
        /\ TheCall.taxable >= 0
        /\ TheCall.tax >= 0
        /\ TheCall.ret.total =
               TheCall.subtotal + TheCall.shipping + TheCall.fragile_fee + TheCall.tax
               - TheCall.discount

\* The largest share: platinum with VIP20, 25% of the subtotal.
C10_Witness ==
    /\ Returned
    /\ TheCall.inv.membership = "platinum"
    /\ TheCall.inv.coupon = VIP20
    /\ 4 * TheCall.discount = TheCall.subtotal
    /\ TheCall.subtotal > 0

\* The invoices that differ from inv in one item only, whose qty is one more
\* or whose unit_price is a larger price of Prices.
Grown(inv) ==
    {[inv EXCEPT !.items[i].qty = @ + 1] : i \in 1 .. Len(inv.items)}
    \cup UNION {{[inv EXCEPT !.items[i].unit_price = Amount(p)] :
                    p \in {q \in Prices : Amount(q) > inv.items[i].unit_price}} :
                i \in 1 .. Len(inv.items)}

\* The path of the membership discount: the tier's rate, the flat amount, none.
DiscountPath(membership, subtotal) ==
    IF membership \in RateBearing THEN "rate"
    ELSE IF subtotal > Amount(3000) THEN "flat"
    ELSE "none"

\* The same discount rule applies to a and b, invoices with the same membership
\* and coupon: the same membership discount path (the coupon outcome is that
\* of the one coupon).
SameDiscountRule(a, b) ==
    DiscountPath(a.membership, SpecSubtotal(a)) = DiscountPath(b.membership, SpecSubtotal(b))

\* The same pair of the shipping table is selected for a and b.
SameShippingTier(a, b) ==
    \E i \in 1 .. Len(SpecRules(a.country)) :
        /\ IsTier(a.country, SpecSubtotal(a), i)
        /\ IsTier(b.country, SpecSubtotal(b), i)

Larger(a, b) ==
    \E i \in 1 .. Len(a.items) :
        /\ b.items[i].qty >= a.items[i].qty
        /\ b.items[i].unit_price >= a.items[i].unit_price
        /\ b.items[i] # a.items[i]
        /\ \A j \in 1 .. Len(a.items) : j # i => b.items[j] = a.items[j]

\* C3 as claimed: the total is non-decreasing in any single item's qty or
\* unit_price, for two valid invoices to which the same discount rule applies,
\* for every country.
C3_MonotoneSameDiscountRule ==
    (Returned /\ ValidInvoice(TheCall.inv)) =>
        \A b \in Grown(TheCall.inv) :
            (Larger(TheCall.inv, b) /\ SameDiscountRule(TheCall.inv, b)) =>
                CallOf(b).ret.total >= TheCall.ret.total

\* C3 as amended: the total is non-decreasing in any single item's qty or
\* unit_price, for two valid invoices to which the same discount rule applies
\* and for which the same pair of the shipping table is selected.
C3_MonotoneSameRuleSameTier ==
    (Returned /\ ValidInvoice(TheCall.inv)) =>
        \A b \in Grown(TheCall.inv) :
            (/\ Larger(TheCall.inv, b)
             /\ SameDiscountRule(TheCall.inv, b)
             /\ SameShippingTier(TheCall.inv, b)) =>
                CallOf(b).ret.total >= TheCall.ret.total

\* An invoice just under 3000, and a larger one with the same rule and tier
\* and a larger total.
C3_Witness ==
    /\ Returned
    /\ ValidInvoice(TheCall.inv)
    /\ TheCall.inv.country = "TH"
    /\ TheCall.inv.membership = "none"
    /\ TheCall.subtotal = Amount(2999)
    /\ \E b \in Grown(TheCall.inv) :
          /\ Larger(TheCall.inv, b)
          /\ SpecSubtotal(b) = Amount(3000)
          /\ SameDiscountRule(TheCall.inv, b)
          /\ SameShippingTier(TheCall.inv, b)
          /\ CallOf(b).ret.total > TheCall.ret.total

\* How a call ended: normally or not, with which message, with which pair.
Outcome(f) == [pc |-> f.pc, error |-> f.error, ret |-> f.ret]

\* The outcome of compute_total(inv) alone on a newly constructed engine.
AloneOutcome(inv) ==
    Outcome(Run(Enter(inv), SHIPPING_RULES, TAX_RATE, MEMBERSHIP_RATE, COUPON_RATE).frame)

TablesAsConstructed ==
    /\ shipping_rules = SHIPPING_RULES
    /\ tax_rate = TAX_RATE
    /\ membership_rate = MEMBERSHIP_RATE
    /\ coupon_rate = COUPON_RATE

\* A step of a call in progress leaves the invoice it was passed as it was.
InvoiceKept ==
    \A c \in Callers :
        (frames[c].pc # "idle" /\ frames'[c].pc # "idle") => frames'[c].inv = frames[c].inv

\* C6: after any interleaving of compute_total calls on one engine the four
\* tables and the passed invoices are unchanged, and the outcome of a call is
\* the outcome its invoice has alone, whatever preceded or overlapped it.
C6_CallsIndependent ==
    /\ [](/\ TablesAsConstructed
          /\ \A c \in Callers :
                frames[c].pc \in Terminal => Outcome(frames[c]) = AloneOutcome(frames[c].inv))
    /\ [][InvoiceKept]_vars

\* A call with a known coupon has returned while or after another call with an
\* unknown coupon recorded its warning.
C6_Witness ==
    /\ frames[1].pc = "returned"
    /\ frames[1].inv.coupon = WELCOME10
    /\ frames[1].ret.warnings = <<>>
    /\ frames[2].pc = "taxable"
    /\ frames[2].warnings = <<"Unknown coupon">>

====
